---- MODULE Spec2Model ----
(***************************************************************************)
(* Postgres chat memory node (MemoryPostgresChat.node.ts).                 *)
(*                                                                         *)
(* The model has three layers:                                             *)
(*   - JavaScript values and LangChain messages, as tagged records;        *)
(*   - the chat history store (PostgresChatMessageHistory), an external    *)
(*     collaborator: one ordered log per (tableName, sessionId), whose     *)
(*     calls are atomic and either apply or throw without effect;          *)
(*   - PostgresToolAwareMemory and MemoryPostgresChat.supplyData, which    *)
(*     are translated from the source.                                     *)
(*                                                                         *)
(* Spec     : every handler is one action (one caller, awaiting each call).*)
(* SpecConc : saveContext is split at its awaits, so that several calls    *)
(*            on the same store interleave.                                *)
(***************************************************************************)
EXTENDS Naturals, Sequences, FiniteSets, TLC

(***************************************************************************)
(* Bounds of the model.                                                    *)
(***************************************************************************)
\* saveContext is called while the store holds at most MaxPrior messages, over
\* all its logs together; one call appends up to four more.
MaxPrior == 1

(***************************************************************************)
(* JavaScript values.                                                      *)
(***************************************************************************)
Undefined == [t |-> "undefined"]
Null == [t |-> "null"]
StrV(s) == [t |-> "string", s |-> s]
NumV(n) == [t |-> "number", n |-> n]
BigIntV(n) == [t |-> "bigint", n |-> n]
\* The plain object {a: n}.
ObjV(n) == [t |-> "object", a |-> n]
ArrV(items) == [t |-> "array", items |-> items]

\* LangChain message classes; all of them extend BaseMessage.
MessageClasses == {"HumanMessage", "AIMessage", "ToolMessage"}

\* new HumanMessage(content)
HumanMessage(content) == [t |-> "HumanMessage", content |-> content]

\* new AIMessage(content) with a string: no tool calls.
AIMessage(content) == [t |-> "AIMessage", content |-> content, tool_calls |-> <<>>]

\* An AIMessage built by an agent, carrying tool calls.
AIMessageWithToolCalls(content, calls) ==
    [t |-> "AIMessage", content |-> content, tool_calls |-> calls]

ToolMessage(content, id) == [t |-> "ToolMessage", content |-> content, tool_call_id |-> id]

\* JavaScript truthiness of a value.
Truthy(v) ==
    CASE v.t \in {"undefined", "null"} -> FALSE
      [] v.t = "string" -> v.s # ""
      [] v.t = "number" -> v.n # 0
      [] v.t = "bigint" -> v.n # 0
      [] OTHER -> TRUE

\* typeof v === 'string'
IsString(v) == v.t = "string"

\* v instanceof AIMessage
InstanceofAIMessage(v) == v.t = "AIMessage"

\* v instanceof BaseMessage
InstanceofBaseMessage(v) == v.t \in MessageClasses

\* Array.isArray(v)
IsArray(v) == v.t = "array"

\* record[key] of a Record<string, any>: undefined when the key is absent.
Get(record, key) == IF key \in DOMAIN record THEN record[key] ELSE Undefined

(***************************************************************************)
(* JSON.stringify.  It yields a text, or throws a TypeError (a BigInt has  *)
(* no JSON form).  A message serialises through Serializable.toJSON.       *)
(***************************************************************************)
RECURSIVE JSONText(_)
RECURSIVE JSONJoin(_)

JSONJoin(items) ==
    IF items = <<>> THEN ""
    ELSE IF Len(items) = 1 THEN JSONText(items[1])
    ELSE JSONText(items[1]) \o "," \o JSONJoin(Tail(items))

JSONText(v) ==
    CASE v.t = "string" -> "\"" \o v.s \o "\""
      [] v.t = "number" -> ToString(v.n)
      [] v.t = "object" -> "{\"a\":" \o ToString(v.a) \o "}"
      [] v.t = "array" -> "[" \o JSONJoin(v.items) \o "]"
      [] v.t \in MessageClasses ->
           "{\"lc\":1,\"type\":\"constructor\",\"id\":[\"langchain_core\",\"messages\",\""
             \o v.t \o "\"],\"kwargs\":{\"content\":\"" \o v.content \o "\"}}"
      [] OTHER -> ""

RECURSIVE HasBigInt(_)
HasBigInt(v) ==
    CASE v.t = "bigint" -> TRUE
      [] v.t = "array" -> \E i \in 1..Len(v.items) : HasBigInt(v.items[i])
      [] OTHER -> FALSE

JSONstringify(v) ==
    IF HasBigInt(v) THEN [threw |-> TRUE, text |-> ""]
    ELSE [threw |-> FALSE, text |-> JSONText(v)]

(***************************************************************************)
(* The chat history store: new PostgresChatMessageHistory({pool,           *)
(* sessionId, tableName}) is a handle on the log of (tableName, sessionId).*)
(***************************************************************************)
DefaultTableName == "n8n_chat_histories"
Tables == {DefaultTableName, "custom_table"}
Sessions == {"s1", "s2"}

PostgresChatMessageHistory(tableName, sessionId) ==
    [t |-> "PostgresChatMessageHistory", tableName |-> tableName, sessionId |-> sessionId]

Handles == {PostgresChatMessageHistory(tb, sid) : tb \in Tables, sid \in Sessions}

EmptyStore == [h \in Handles |-> <<>>]

RECURSIVE SumLen(_, _)
SumLen(lg, hs) ==
    IF hs = {} THEN 0
    ELSE LET h == CHOOSE x \in hs : TRUE IN Len(lg[h]) + SumLen(lg, hs \ {h})

TotalMessages(lg) == SumLen(lg, Handles)

\* A call on the store, as the adapter issues it.
StoreCall(fn, messages) == [fn |-> fn, messages |-> messages]

\* A throw of the adapter's own code between two store calls.
Throw(error) == [fn |-> "throw", error |-> error]

historyGetMessages(lg, h) == lg[h]

historyAddMessage(lg, h, message) == [lg EXCEPT ![h] = Append(@, message)]

historyAddMessages(lg, h, messages) == [lg EXCEPT ![h] = @ \o messages]

historyClear(lg, h) == [lg EXCEPT ![h] = <<>>]

\* The effect of one successful store call.
ApplyCall(lg, h, call) ==
    CASE call.fn = "addMessage" -> historyAddMessage(lg, h, call.messages[1])
      [] call.fn = "addMessages" -> historyAddMessages(lg, h, call.messages)
      [] call.fn = "clear" -> historyClear(lg, h)
      [] OTHER -> lg

(***************************************************************************)
(* Running a handler: its steps in program order, each store call awaited. *)
(* The store call number `fail` (0: none) rejects; a rejected call has no  *)
(* effect, and the rejection leaves the handler at that await.             *)
(***************************************************************************)
\* Variant: a rejection is caught and the handler carries on.
RECURSIVE RunSwallowing(_, _, _, _, _)
RunSwallowing(steps, lg, h, fail, made) ==
    IF steps = <<>> THEN [log |-> lg, calls |-> made, error |-> "none"]
    ELSE LET step == Head(steps) IN
         IF step.fn = "throw"
         THEN [log |-> lg, calls |-> made, error |-> step.error]
         ELSE IF Len(made) + 1 = fail
         THEN RunSwallowing(Tail(steps), lg, h, fail, Append(made, step))
         ELSE RunSwallowing(Tail(steps), ApplyCall(lg, h, step), h, fail, Append(made, step))

RECURSIVE Run(_, _, _, _, _)
Run(steps, lg, h, fail, made) ==
    IF steps = <<>> THEN [log |-> lg, calls |-> made, error |-> "none"]
    ELSE LET step == Head(steps) IN
         IF step.fn = "throw"
         THEN [log |-> lg, calls |-> made, error |-> step.error]
         ELSE IF Len(made) + 1 = fail
         THEN [log |-> lg, calls |-> Append(made, step), error |-> "UpstreamIOError"]
         ELSE Run(Tail(steps), ApplyCall(lg, h, step), h, fail, Append(made, step))

\* The store calls among a handler's steps.
StoreCallsOf(steps) == SelectSeq(steps, LAMBDA step : step.fn # "throw")

\* `fail` names no call, or one of the store calls the handler can issue.
CanFail(steps, fail) == fail <= Len(StoreCallsOf(steps))

(***************************************************************************)
(* PostgresToolAwareMemory.                                                *)
(***************************************************************************)
\* input?.field
OptionalField(input, field) ==
    IF input = Undefined THEN Undefined ELSE Get(input, field)

\* a ?? b
NullishCoalesce(a, b) == IF a \in {Undefined, Null} THEN b ELSE a

\* Variant: the constructor without its check of chatHistory.
NewPostgresToolAwareMemoryUnchecked(input) ==
    [threw |-> FALSE, error |-> "none",
     instance |->
       [class |-> "PostgresToolAwareMemory",
        returnMessages |-> NullishCoalesce(OptionalField(input, "returnMessages"),
                                           [t |-> "boolean", b |-> TRUE]),
        memoryKey |-> NullishCoalesce(OptionalField(input, "memoryKey"),
                                      StrV("chat_history")),
        history |-> OptionalField(input, "chatHistory"),
        chatHistory |-> OptionalField(input, "chatHistory"),
        inputKey |-> NullishCoalesce(OptionalField(input, "inputKey"), StrV("input")),
        outputKey |-> NullishCoalesce(OptionalField(input, "outputKey"),
                                      StrV("output"))]]

\* The constructor: the instance, or the error it throws.
NewPostgresToolAwareMemory(input) ==
    IF ~Truthy(OptionalField(input, "chatHistory"))
    THEN [threw |-> TRUE, error |-> "ConfigError", instance |-> Undefined]
    ELSE [threw |-> FALSE, error |-> "none",
          instance |->
            [class |-> "PostgresToolAwareMemory",
             returnMessages |-> NullishCoalesce(OptionalField(input, "returnMessages"),
                                                [t |-> "boolean", b |-> TRUE]),
             memoryKey |-> NullishCoalesce(OptionalField(input, "memoryKey"),
                                           StrV("chat_history")),
             history |-> input.chatHistory,
             chatHistory |-> input.chatHistory,
             inputKey |-> NullishCoalesce(OptionalField(input, "inputKey"), StrV("input")),
             outputKey |-> NullishCoalesce(OptionalField(input, "outputKey"),
                                           StrV("output"))]]

\* get memoryKeys()
memoryKeys(m) == <<m.memoryKey.s>>

\* loadMemoryVariables: the store call, and the mapping built from its answer.
LoadSteps(m) == <<StoreCall("getMessages", <<>>)>>

\* Variant: only the last two messages are returned.
LoadResultWindowed(m, messages) ==
    (m.memoryKey.s :>
        IF Len(messages) <= 2 THEN messages
        ELSE SubSeq(messages, Len(messages) - 1, Len(messages)))

LoadResult(m, messages) == (m.memoryKey.s :> messages)

\* Variant: the input is tested for presence, not for truthiness.
SaveInputStepsIfPresent(m, inputs) ==
    IF Truthy(m.inputKey) /\ Get(inputs, m.inputKey.s) # Undefined
    THEN <<StoreCall("addMessage", <<HumanMessage(Get(inputs, m.inputKey.s).s)>>)>>
    ELSE <<>>

\* saveContext, step 1: the input message.
SaveInputSteps(m, inputs) ==
    IF Truthy(m.inputKey) /\ Truthy(Get(inputs, m.inputKey.s))
    THEN <<StoreCall("addMessage", <<HumanMessage(Get(inputs, m.inputKey.s).s)>>)>>
    ELSE <<>>

\* Variant: no branch for an AIMessage, which then goes through JSON.stringify.
OutputDispatchWithoutAIMessage(outputValue) ==
    IF IsString(outputValue)
    THEN <<StoreCall("addMessage", <<AIMessage(outputValue.s)>>)>>
    ELSE IF IsArray(outputValue)
            /\ \A i \in 1..Len(outputValue.items) : InstanceofBaseMessage(outputValue.items[i])
    THEN <<StoreCall("addMessages", outputValue.items)>>
    ELSE IF JSONstringify(outputValue).threw
    THEN <<Throw("TypeError")>>
    ELSE <<StoreCall("addMessage", <<AIMessage(JSONstringify(outputValue).text)>>)>>

\* Variant: of an array of messages only the first goes to the store.
OutputDispatchFirstOfArray(outputValue) ==
    IF IsString(outputValue)
    THEN <<StoreCall("addMessage", <<AIMessage(outputValue.s)>>)>>
    ELSE IF InstanceofAIMessage(outputValue)
    THEN <<StoreCall("addMessage", <<outputValue>>)>>
    ELSE IF IsArray(outputValue)
            /\ \A i \in 1..Len(outputValue.items) : InstanceofBaseMessage(outputValue.items[i])
    THEN <<StoreCall("addMessages", IF outputValue.items = <<>> THEN <<>>
                                    ELSE <<Head(outputValue.items)>>)>>
    ELSE IF JSONstringify(outputValue).threw
    THEN <<Throw("TypeError")>>
    ELSE <<StoreCall("addMessage", <<AIMessage(JSONstringify(outputValue).text)>>)>>

\* saveContext, step 2: the output message(s), by the shape of the output value.
OutputDispatch(outputValue) ==
    IF IsString(outputValue)
    THEN <<StoreCall("addMessage", <<AIMessage(outputValue.s)>>)>>
    ELSE IF InstanceofAIMessage(outputValue)
    THEN <<StoreCall("addMessage", <<outputValue>>)>>
    ELSE IF IsArray(outputValue)
            /\ \A i \in 1..Len(outputValue.items) : InstanceofBaseMessage(outputValue.items[i])
    THEN <<StoreCall("addMessages", outputValue.items)>>
    ELSE IF JSONstringify(outputValue).threw
    THEN <<Throw("TypeError")>>
    ELSE <<StoreCall("addMessage", <<AIMessage(JSONstringify(outputValue).text)>>)>>

SaveOutputSteps(m, outputs) ==
    IF Truthy(m.outputKey) /\ Truthy(Get(outputs, m.outputKey.s))
    THEN OutputDispatch(Get(outputs, m.outputKey.s))
    ELSE <<>>

\* Variant: the output is saved before the input.
SaveContextStepsOutputFirst(m, inputs, outputs) ==
    SaveOutputSteps(m, outputs) \o SaveInputSteps(m, inputs)

SaveContextSteps(m, inputs, outputs) ==
    SaveInputSteps(m, inputs) \o SaveOutputSteps(m, outputs)

\* Variant: clear returns without calling the store.
ClearStepsWithoutCall(m) == <<>>

ClearSteps(m) == <<StoreCall("clear", <<>>)>>

(***************************************************************************)
(* MemoryPostgresChat.supplyData.  typeVersion is in tenths: 1.4 is 14.    *)
(***************************************************************************)
TypeVersions == {10, 11, 12, 13, 14}

EmptyOptions == [f \in {} |-> Undefined]

\* Variant: the tool-aware memory only above version 1.4.
SelectMemoryAbove14(typeVersion, supportToolCalls, contextWindowLength, pgChatHistory) ==
    IF typeVersion > 14 /\ supportToolCalls
    THEN NewPostgresToolAwareMemory(
             [memoryKey |-> StrV("chat_history"),
              chatHistory |-> pgChatHistory,
              returnMessages |-> [t |-> "boolean", b |-> TRUE],
              inputKey |-> StrV("input"),
              outputKey |-> StrV("output")]).instance
    ELSE LET memClass == IF typeVersion < 11 THEN "BufferMemory" ELSE "BufferWindowMemory"
             kOptions == IF typeVersion < 11 THEN EmptyOptions
                         ELSE [k |-> contextWindowLength]
         IN [class |-> memClass,
             fields |-> kOptions @@
                        [memoryKey |-> StrV("chat_history"),
                         chatHistory |-> pgChatHistory,
                         returnMessages |-> [t |-> "boolean", b |-> TRUE],
                         inputKey |-> StrV("input"),
                         outputKey |-> StrV("output")]]

SelectMemory(typeVersion, supportToolCalls, contextWindowLength, pgChatHistory) ==
    IF typeVersion >= 14 /\ supportToolCalls
    THEN NewPostgresToolAwareMemory(
             [memoryKey |-> StrV("chat_history"),
              chatHistory |-> pgChatHistory,
              returnMessages |-> [t |-> "boolean", b |-> TRUE],
              inputKey |-> StrV("input"),
              outputKey |-> StrV("output")]).instance
    ELSE LET memClass == IF typeVersion < 11 THEN "BufferMemory" ELSE "BufferWindowMemory"
             kOptions == IF typeVersion < 11 THEN EmptyOptions
                         ELSE [k |-> contextWindowLength]
         IN [class |-> memClass,
             fields |-> kOptions @@
                        [memoryKey |-> StrV("chat_history"),
                         chatHistory |-> pgChatHistory,
                         returnMessages |-> [t |-> "boolean", b |-> TRUE],
                         inputKey |-> StrV("input"),
                         outputKey |-> StrV("output")]]

(***************************************************************************)
(* The values the caller passes.                                           *)
(***************************************************************************)
ToolCalls == <<[name |-> "get_weather", args |-> "{\"city\":\"Paris\"}", id |-> "call_1"],
               [name |-> "get_time", args |-> "{}", id |-> "call_2"]>>

ToolCallMessage == AIMessageWithToolCalls("", ToolCalls)

ToolResults == <<ToolMessage("sunny", "call_1"), ToolMessage("12:00", "call_2")>>

\* inputs[inputKey] and outputs[outputKey], when present.
InputValues == {StrV(""), StrV("Hello")}

OutputValues ==
    {StrV(""), StrV("Hi there"),
     ToolCallMessage,
     ArrV(<<ToolCallMessage>> \o ToolResults),
     ArrV(<<>>),
     ArrV(<<ToolCallMessage, StrV("done")>>),
     ToolResults[1],
     ObjV(1),
     NumV(0),
     BigIntV(10)}

InputRecords ==
    {EmptyOptions} \cup {[input |-> v] : v \in InputValues}
                   \cup {[question |-> StrV("Hello")]}

OutputRecords ==
    {EmptyOptions} \cup {[output |-> v] : v \in OutputValues}
                   \cup {[answer |-> StrV("Hi there")]}

\* The argument of `new PostgresToolAwareMemory(...)`.
ConstructorInputs ==
    {Undefined, EmptyOptions, [memoryKey |-> StrV("history"), chatHistory |-> Null]}
    \cup {[chatHistory |-> h] : h \in Handles}
    \cup {[chatHistory |-> h, memoryKey |-> StrV("history"),
           inputKey |-> StrV("question"), outputKey |-> StrV("answer")] : h \in Handles}

ContextWindowLengths == {1, 5}

(***************************************************************************)
(* What a saveContext call is asked to persist (section 4.1 of the         *)
(* specification): the human message, then the output by its shape.        *)
(***************************************************************************)
AskedInput(m, inputs) ==
    LET v == Get(inputs, m.inputKey.s) IN
    IF Truthy(v) THEN <<HumanMessage(v.s)>> ELSE <<>>

OutputShape(v) ==
    CASE v.t = "string" -> "Text"
      [] v.t = "AIMessage" -> "StructuredMessage"
      [] v.t = "array" /\ (\A i \in 1..Len(v.items) : v.items[i].t \in MessageClasses)
           -> "MessageSequence"
      [] OTHER -> "Opaque"

AskedOutput(m, outputs) ==
    LET v == Get(outputs, m.outputKey.s) IN
    IF ~Truthy(v) THEN <<>>
    ELSE CASE OutputShape(v) = "Text" -> <<AIMessage(v.s)>>
           [] OutputShape(v) = "StructuredMessage" -> <<v>>
           [] OutputShape(v) = "MessageSequence" -> v.items
           [] OTHER -> <<AIMessage(JSONText(v))>>

AskedToPersist(m, inputs, outputs) == AskedInput(m, inputs) \o AskedOutput(m, outputs)

(***************************************************************************)
(* State.                                                                  *)
(***************************************************************************)
VARIABLES
    log,      \* the store: handle -> the ordered messages of its log
    memory,   \* the memory object of the current node invocation
    last,     \* the last operation: its arguments, the store calls it issued, the
              \* number of the call the store rejected (0: none), the error it
              \* threw, what it returned, and the store before it
    asked,    \* per log: its content at the last clear or failure, followed by
              \* what the successful saveContext calls since were asked to persist
    inflight  \* concurrent saveContext calls: per call, where it stands

vars == <<log, memory, last, asked, inflight>>

NoMemory == [class |-> "none"]

\* The saveContext calls that may run concurrently.
CallIds == {"call1", "call2"}

Idle == [pc |-> "idle"]

Init ==
    /\ log = EmptyStore
    /\ memory = NoMemory
    /\ last = [op |-> "init", args |-> EmptyOptions, calls |-> <<>>, rejected |-> 0,
               error |-> "none", result |-> Undefined, before |-> EmptyStore]
    /\ asked = EmptyStore
    /\ inflight = [c \in CallIds |-> Idle]

IsToolAware == memory.class = "PostgresToolAwareMemory"

\* MemoryPostgresChat.supplyData
supplyData(typeVersion, supportToolCalls, contextWindowLength, tableName, sessionId) ==
    LET pgChatHistory == PostgresChatMessageHistory(tableName, sessionId)
        response == SelectMemory(typeVersion, supportToolCalls, contextWindowLength,
                                 pgChatHistory)
    IN /\ memory' = response
       /\ last' = [op |-> "supplyData",
                   args |-> [typeVersion |-> typeVersion,
                             supportToolCalls |-> supportToolCalls,
                             contextWindowLength |-> contextWindowLength,
                             tableName |-> tableName, sessionId |-> sessionId],
                   calls |-> <<>>, rejected |-> 0, error |-> "none", result |-> response,
                   before |-> log]
       /\ UNCHANGED <<log, asked, inflight>>

\* new PostgresToolAwareMemory(input)
Construct(input) ==
    LET r == NewPostgresToolAwareMemory(input) IN
    /\ memory' = IF r.threw THEN NoMemory ELSE r.instance
    /\ last' = [op |-> "construct", args |-> [input |-> input], calls |-> <<>>,
                rejected |-> 0, error |-> r.error, result |-> r.instance, before |-> log]
    /\ UNCHANGED <<log, asked, inflight>>

\* PostgresToolAwareMemory.loadMemoryVariables
loadMemoryVariables(fail) ==
    /\ IsToolAware
    /\ CanFail(LoadSteps(memory), fail)
    /\ LET r == Run(LoadSteps(memory), log, memory.history, fail, <<>>) IN
       last' = [op |-> "loadMemoryVariables", args |-> EmptyOptions, calls |-> r.calls,
                rejected |-> fail, error |-> r.error,
                result |-> IF r.error = "none"
                           THEN LoadResult(memory, historyGetMessages(log, memory.history))
                           ELSE Undefined,
                before |-> log]
    /\ UNCHANGED <<log, memory, asked, inflight>>

\* PostgresToolAwareMemory.saveContext
saveContext(inputs, outputs, fail) ==
    /\ IsToolAware
    /\ TotalMessages(log) <= MaxPrior
    /\ CanFail(SaveContextSteps(memory, inputs, outputs), fail)
    /\ LET h == memory.history
           r == Run(SaveContextSteps(memory, inputs, outputs), log, h, fail, <<>>)
       IN /\ log' = r.log
          /\ last' = [op |-> "saveContext", args |-> [inputs |-> inputs, outputs |-> outputs],
                      calls |-> r.calls, rejected |-> fail, error |-> r.error,
                      result |-> Undefined, before |-> log]
          /\ asked' = IF r.error = "none"
                      THEN [asked EXCEPT ![h] = @ \o AskedToPersist(memory, inputs, outputs)]
                      ELSE r.log
    /\ UNCHANGED <<memory, inflight>>

\* PostgresToolAwareMemory.clear
clear(fail) ==
    /\ IsToolAware
    /\ CanFail(ClearSteps(memory), fail)
    /\ LET h == memory.history
           r == Run(ClearSteps(memory), log, h, fail, <<>>)
       IN /\ log' = r.log
          /\ last' = [op |-> "clear", args |-> EmptyOptions, calls |-> r.calls,
                      rejected |-> fail, error |-> r.error, result |-> Undefined,
                      before |-> log]
          /\ asked' = IF r.error = "none" THEN [asked EXCEPT ![h] = <<>>] ELSE asked
    /\ UNCHANGED <<memory, inflight>>

\* One node configuration: every invocation resolves the same table and session.
OneTable == {DefaultTableName}
OneSession == {"s1"}

Next ==
    \/ \E v \in TypeVersions, f \in BOOLEAN, k \in ContextWindowLengths,
          tb \in OneTable, sid \in OneSession : supplyData(v, f, k, tb, sid)
    \/ \E input \in ConstructorInputs :
          /\ OptionalField(input, "chatHistory") \in
                {Undefined, Null, PostgresChatMessageHistory(DefaultTableName, "s1")}
          /\ Construct(input)
    \/ \E fail \in 0..1 : loadMemoryVariables(fail)
    \/ \E inputs \in InputRecords, outputs \in OutputRecords, fail \in 0..2 :
          saveContext(inputs, outputs, fail)
    \/ \E fail \in 0..1 : clear(fail)

Spec == Init /\ [][Next]_vars

(***************************************************************************)
(* Several sessions and tables on one store: node invocations of the       *)
(* tool-aware variant for every (tableName, sessionId), saving plain turns.*)
(***************************************************************************)
SessionInputs == {[input |-> StrV("Hello")]}
SessionOutputs == {EmptyOptions, [output |-> StrV("Hi there")]}

NextSessions ==
    \/ \E tb \in Tables, sid \in Sessions : supplyData(14, TRUE, 5, tb, sid)
    \/ \E fail \in 0..1 : loadMemoryVariables(fail)
    \/ \E inputs \in SessionInputs, outputs \in SessionOutputs, fail \in 0..2 :
          saveContext(inputs, outputs, fail)
    \/ \E fail \in 0..1 : clear(fail)

SpecSessions == Init /\ [][NextSessions]_vars

(***************************************************************************)
(* Concurrent saveContext calls.  A call runs to its next await; the store *)
(* call it awaits takes effect, or is rejected, at some later step, and    *)
(* the call then runs on to its next await, to its end or to a throw.      *)
(***************************************************************************)
ConcInputs(c) ==
    IF c = "call1" THEN [input |-> StrV("Hello")] ELSE [input |-> StrV("Bye")]

ConcOutputs(c) ==
    IF c = "call1"
    THEN {[output |-> StrV("Hi there")], [output |-> ArrV(<<ToolCallMessage>> \o ToolResults)]}
    ELSE {EmptyOptions, [output |-> StrV("See you")], [output |-> ObjV(1)],
          [output |-> BigIntV(10)]}

\* The adapter a node invocation of version 1.4 with tool calls gets for a session.
ConcMemory(sessionId) ==
    SelectMemory(14, TRUE, 5, PostgresChatMessageHistory(DefaultTableName, sessionId))

\* A call with `steps` left: at an await, at its end, or thrown out of.
Advance(call, steps) ==
    IF steps = <<>> THEN [call EXCEPT !.pc = "done", !.steps = <<>>]
    ELSE IF Head(steps).fn = "throw"
    THEN [call EXCEPT !.pc = "failed", !.steps = <<>>, !.error = Head(steps).error]
    ELSE [call EXCEPT !.pc = "awaiting", !.steps = steps]

\* saveContext is called: it runs to its first await.
beginSaveContext(c, sessionId, outputs) ==
    /\ inflight[c].pc = "idle"
    /\ LET m == ConcMemory(sessionId)
           call == [pc |-> "idle", m |-> m, inputs |-> ConcInputs(c), outputs |-> outputs,
                    steps |-> <<>>, error |-> "none"]
       IN inflight' = [inflight EXCEPT ![c] =
                          Advance(call, SaveContextSteps(m, ConcInputs(c), outputs))]
    /\ UNCHANGED <<log, memory, last, asked>>

\* The awaited store call takes effect and saveContext resumes.
storeResolves(c) ==
    /\ inflight[c].pc = "awaiting"
    /\ log' = ApplyCall(log, inflight[c].m.history, Head(inflight[c].steps))
    /\ inflight' = [inflight EXCEPT ![c] = Advance(@, Tail(inflight[c].steps))]
    /\ UNCHANGED <<memory, last, asked>>

\* The awaited store call is rejected: saveContext throws at that await.
storeRejects(c) ==
    /\ inflight[c].pc = "awaiting"
    /\ inflight' = [inflight EXCEPT ![c] =
                       [@ EXCEPT !.pc = "failed", !.steps = <<>>, !.error = "UpstreamIOError"]]
    /\ UNCHANGED <<log, memory, last, asked>>

NextConc ==
    \/ \E c \in CallIds, sid \in Sessions :
          \E outputs \in ConcOutputs(c) : beginSaveContext(c, sid, outputs)
    \/ \E c \in CallIds : storeResolves(c)
    \/ \E c \in CallIds : storeRejects(c)

SpecConc == Init /\ [][NextConc]_vars

(***************************************************************************)
(* Properties.  `last` names the operation that led to the current state;  *)
(* saveContext, loadMemoryVariables and clear leave `memory` unchanged, so *)
(* after one of them `memory` is the adapter that ran it.                  *)
(***************************************************************************)
LastSave == last.op = "saveContext"
LastOk == last.error = "none"
LastHistory == memory.history
LastInput == Get(last.args.inputs, memory.inputKey.s)
LastOutput == Get(last.args.outputs, memory.outputKey.s)
LastHuman == IF Truthy(LastInput) THEN <<HumanMessage(LastInput.s)>> ELSE <<>>
IsMessageSequence(v) ==
    /\ v.t = "array"
    /\ \A i \in 1..Len(v.items) : v.items[i].t \in MessageClasses
OthersUntouched ==
    \A h \in Handles \ {LastHistory} : log[h] = last.before[h]

\* C1: append-order fidelity.  Every log is its content at the last clear or
\* failure followed by exactly the messages the successful saveContext calls
\* since then were asked to persist, in order; and a successful
\* loadMemoryVariables returns the one-entry mapping memoryKey -> that sequence.
C1_AppendOrderFidelity ==
    /\ \A h \in Handles : log[h] = asked[h]
    /\ (last.op = "loadMemoryVariables" /\ LastOk) =>
          /\ DOMAIN last.result = {memory.memoryKey.s}
          /\ last.result[memory.memoryKey.s] = asked[LastHistory]
          /\ log = last.before

C1_Witness ==
    /\ last.op = "loadMemoryVariables" /\ LastOk
    /\ last.result[memory.memoryKey.s] =
          <<AIMessage("Hi there"), HumanMessage("Hello"), ToolCallMessage>> \o ToolResults

C4_ToolCallRoundTrip ==
    (LastSave /\ LastOk /\ LastOutput.t = "AIMessage" /\ LastOutput.tool_calls # <<>>) =>
       LET loaded == LoadResult(memory, historyGetMessages(log, LastHistory))
                        [memory.memoryKey.s]
       IN /\ last.calls[Len(last.calls)] = StoreCall("addMessage", <<LastOutput>>)
          /\ Len(loaded) = Len(last.before[LastHistory]) + Len(LastHuman) + 1
          /\ loaded[Len(loaded)] = LastOutput
          /\ loaded[Len(loaded)].tool_calls = ToolCalls

C4_Witness ==
    /\ LastSave /\ LastOk
    /\ LastOutput = ToolCallMessage
    /\ log[LastHistory] = <<HumanMessage("Hello"), ToolCallMessage>>

\* C5: an output that is a sequence of messages is appended whole, element by
\* element and in order, after the human message when there is one.
C5_SequenceAppended ==
    (LastSave /\ LastOk /\ Truthy(LastOutput) /\ IsMessageSequence(LastOutput)) =>
       /\ log[LastHistory] = last.before[LastHistory] \o LastHuman \o LastOutput.items
       /\ Len(log[LastHistory]) =
             Len(last.before[LastHistory]) + Len(LastHuman) + Len(LastOutput.items)
       /\ OthersUntouched

C5_Witness ==
    /\ LastSave /\ LastOk
    /\ LastOutput = ArrV(<<ToolCallMessage>> \o ToolResults)
    /\ last.before[LastHistory] # <<>>
    /\ log[LastHistory] = last.before[LastHistory]
                             \o <<HumanMessage("Hello"), ToolCallMessage>> \o ToolResults

\* C6: a truthy output that is neither a string, nor an AI message, nor a sequence
\* of messages never makes saveContext fail of its own: unless the store rejects a
\* call, exactly one AI message is appended, whose content is the output's text form.
C6_OpaqueOutputSerialised ==
    (LastSave /\ last.rejected = 0 /\ Truthy(LastOutput)
       /\ LastOutput.t # "string" /\ LastOutput.t \notin MessageClasses
       /\ ~IsMessageSequence(LastOutput)) =>
       /\ LastOk
       /\ log[LastHistory] = last.before[LastHistory] \o LastHuman
                                \o <<AIMessage(JSONText(LastOutput))>>

\* C7: variant selection.  supplyData returns BufferMemory without k below 1.1,
\* BufferWindowMemory with k = contextWindowLength from 1.1 on unless the version
\* is at least 1.4 with tool calls supported, and then PostgresToolAwareMemory on
\* the (tableName, sessionId) log, whatever contextWindowLength is.
C7_VariantSelection ==
    last.op = "supplyData" =>
       LET v == last.args.typeVersion
           flag == last.args.supportToolCalls
           handle == PostgresChatMessageHistory(last.args.tableName, last.args.sessionId)
       IN /\ memory = last.result
          /\ last.error = "none"
          /\ memory.class \in {"BufferMemory", "BufferWindowMemory", "PostgresToolAwareMemory"}
          /\ v < 11 =>
                /\ memory.class = "BufferMemory"
                /\ "k" \notin DOMAIN memory.fields
                /\ memory.fields.chatHistory = handle
          /\ (v >= 11 /\ (v < 14 \/ ~flag)) =>
                /\ memory.class = "BufferWindowMemory"
                /\ memory.fields.k = last.args.contextWindowLength
                /\ memory.fields.chatHistory = handle
          /\ (v >= 14 /\ flag) =>
                memory = [class |-> "PostgresToolAwareMemory",
                          returnMessages |-> [t |-> "boolean", b |-> TRUE],
                          memoryKey |-> StrV("chat_history"),
                          history |-> handle, chatHistory |-> handle,
                          inputKey |-> StrV("input"), outputKey |-> StrV("output")]

C7_Witness ==
    /\ last.op = "supplyData"
    /\ last.args.typeVersion = 14 /\ last.args.supportToolCalls
    /\ memory.class = "PostgresToolAwareMemory"

\* C8: a rejected store call surfaces as the operation's error, is the last call
\* the operation issues (no retry, nothing after it), and undoes nothing: when the
\* output append of saveContext is rejected the log keeps the human message, and
\* when the input append is rejected the store is unchanged.
C8_NonAtomicPassThrough ==
    last.rejected > 0 =>
       /\ last.error = "UpstreamIOError"
       /\ Len(last.calls) = last.rejected
       /\ OthersUntouched
       /\ (LastSave /\ last.rejected = 2) =>
             /\ Truthy(LastInput)
             /\ log[LastHistory] = last.before[LastHistory] \o <<HumanMessage(LastInput.s)>>
       /\ (LastSave /\ last.rejected = 1) => log = last.before
       /\ ~LastSave => (log = last.before /\ last.result = Undefined)

C8_Witness ==
    /\ LastSave /\ last.rejected = 2
    /\ Truthy(LastOutput)
    /\ log[LastHistory] = last.before[LastHistory] \o <<HumanMessage("Hello")>>

\* C9: constructing the adapter without a message-log handle throws the
\* configuration error, yields no instance, and calls the store not at all.
C9_HandleRequired ==
    (last.op = "construct" /\ ~Truthy(OptionalField(last.args.input, "chatHistory"))) =>
       /\ last.error = "ConfigError"
       /\ last.result = Undefined
       /\ memory = NoMemory
       /\ last.calls = <<>>
       /\ log = last.before

C9_Witness ==
    /\ last.op = "construct"
    /\ last.args.input = Undefined
    /\ last.error = "ConfigError"
    /\ \E h \in Handles : log[h] # <<>>

\* C2: clear is session-scoped.  A successful clear empties the log of the
\* adapter's (tableName, sessionId) and leaves every other log as it was, and a
\* loadMemoryVariables that follows it returns the empty sequence.
C2_ClearSessionScoped ==
    /\ [](last.op = "clear" /\ LastOk =>
             /\ log[LastHistory] = <<>>
             /\ OthersUntouched)
    /\ [][(last.op = "clear" /\ LastOk
              /\ last'.op = "loadMemoryVariables" /\ last'.error = "none")
            => last'.result = (memory.memoryKey.s :> <<>>)]_vars

C2_Witness ==
    /\ last.op = "clear" /\ LastOk
    /\ last.before[LastHistory] # <<>>
    /\ \E h \in Handles \ {LastHistory} :
          /\ h.sessionId = LastHistory.sessionId
          /\ log[h] # <<>>

\* w is an interleaving of a and b: every element of both once, each in its order.
RECURSIVE IsMerge(_, _, _)
IsMerge(w, a, b) ==
    IF w = <<>> THEN a = <<>> /\ b = <<>>
    ELSE \/ a # <<>> /\ Head(a) = Head(w) /\ IsMerge(Tail(w), Tail(a), b)
         \/ b # <<>> /\ Head(b) = Head(w) /\ IsMerge(Tail(w), a, Tail(b))

\* What call c was asked to persist on log h.
AskedOn(c, h) ==
    IF inflight[c].m.history = h
    THEN AskedToPersist(inflight[c].m, inflight[c].inputs, inflight[c].outputs)
    ELSE <<>>

AllDone == \A c \in CallIds : inflight[c].pc = "done"

\* C10: concurrent saveContext calls.  Once both calls have returned normally,
\* every log is an interleaving of what the calls on it were asked to persist:
\* every message once, each call's messages in their own order (its human message
\* before its output).  Nothing orders the two calls' messages among themselves.
C10_ConcurrentSavesInterleave ==
    AllDone => \A h \in Handles : IsMerge(log[h], AskedOn("call1", h), AskedOn("call2", h))

C10_Witness ==
    /\ AllDone
    /\ log[PostgresChatMessageHistory(DefaultTableName, "s1")] =
          <<HumanMessage("Hello"), HumanMessage("Bye"),
            AIMessage("Hi there"), AIMessage("See you")>>

====
